---- MODULE Spec2Model ----
(***************************************************************************)
(* A model of the rusk task runner: key parsing (taskkey.rs), the          *)
(* construction of the registry from the configuration files (fs.rs), the  *)
(* conversion of the registry into executables and the exec pipeline       *)
(* (rusk.rs), the                                                          *)
(* dependency resolver TreeNode::new_vec (digraph.rs), the memoized cell   *)
(* TaskExecutable::as_future, the staleness gate                           *)
(* TaskExecutableInner::into_future and the scheduler exec_all.            *)
(*                                                                         *)
(* Strings are tuples of one-character strings.  The cooperative futures   *)
(* of exec_all are modelled one per path of the resolved forest; a step    *)
(* of a future runs from one suspension point (.await) to the next.        *)
(***************************************************************************)
EXTENDS Naturals, Sequences, FiniteSets, TLC

VARIABLES
    tasks,      \* Rusk.tasks : the registry, TaskKey -> Task
    opts,       \* ExecuteOpts.envs : the global environment, name -> value
    composer,   \* RuskfileComposer.map : config path -> parsed file or error
    unvisited,  \* try_from: the config paths the outer for loop has not taken
    config,     \* try_from: configfile_dir and the entries not yet visited
    args,       \* the args of Rusk::exec, a sequence of strings
    fs,         \* the filesystem: file path -> modification time, 0 = absent
    phase,      \* position of Rusk::exec
    todo,       \* into_executable: registry keys not yet visited by the for loop
    parsed,     \* into_executable: parsed_tasks
    tk,         \* Rusk::exec: the parsed target keys
    list,       \* new_vec: hashmap / convert: list (TaskKey -> RawOrNode)
    stack,      \* new_vec: the active calls of convert, outermost first
    ti,         \* new_vec: number of targets already taken by the for loop
    nodes,      \* the TreeNodes built so far; a node's identity is its index
    roots,      \* new_vec: roots (node identities)
    cell,       \* node identity -> TaskExecutableState of the node's item
    chan,       \* the watch channels created by as_future, in creation order
    fut,        \* exec_all: path of the forest -> the exec_node future on it
    result,     \* the value Rusk::exec returned, NoResult while running
    runs,       \* history: TaskKey -> number of execute_with_pipes calls
    execs,      \* history: TaskKey -> number of into_future calls
    gate,       \* history: TaskKey -> what into_future observed for the key
    panic       \* the panic of as_future that ended the run, "none" if none

vars == <<tasks, opts, composer, unvisited, config, args, fs, phase, todo, parsed, tk, list, stack, ti, nodes,
          roots, cell, chan, fut, result, runs, execs, gate, panic>>

-----------------------------------------------------------------------------
(* Bounds of the model *)

\* Longest args list given to Rusk::exec.
MaxTargets == 2
\* Largest modification time of a file (0 stands for an absent file).
MaxTime == 2
\* Most dependencies a registry given to the resolver on its own holds.
MaxEdges == 3
\* Longest list of targets given to the resolver on its own.
MaxLabels == 3
\* Longest string given to the key parser.
MaxStr == 3
\* Largest exit code the shell returns.
MaxExit == 2

-----------------------------------------------------------------------------
(* Strings and keys: taskkey.rs, path.rs *)

Letters ==
    {"a","b","c","d","e","f","g","h","i","j","k","l","m","n","o","p","q","r",
     "s","t","u","v","w","x","y","z","A","B","C","D","E","F","G","H","I","J",
     "K","L","M","N","O","P","Q","R","S","T","U","V","W","X","Y","Z"}
Digits == {"0","1","2","3","4","5","6","7","8","9"}

is_ascii_alphabetic(c) == c \in Letters
is_ascii_alphanumeric(c) == c \in Letters \cup Digits

Contains(s, c) == \E i \in DOMAIN s : s[i] = c

Ok(v) == [ok |-> TRUE, val |-> v]
Err(e) == [ok |-> FALSE, err |-> e]

\* Variant: the first character may be a digit.
PhonyTaskString_lenient(value) ==
    IF value = <<>> THEN Err("Phony")
    ELSE IF \E i \in 1..Len(value) :
                /\ ~is_ascii_alphanumeric(value[i])
                /\ value[i] # "_"
                /\ value[i] # "-"
         THEN Err("Phony")
    ELSE Ok(value)

\* TryFrom<String> for PhonyTaskString
PhonyTaskString_try_from(value) ==
    IF value = <<>> THEN Err("Phony")
    ELSE IF ~is_ascii_alphabetic(value[1]) THEN Err("Phony")
    ELSE IF \E i \in 2..Len(value) :
                /\ ~is_ascii_alphanumeric(value[i])
                /\ value[i] # "_"
                /\ value[i] # "-"
         THEN Err("Phony")
    ELSE Ok(value)

\* TryFrom<String> for PathTaskString
PathTaskString_try_from(value) ==
    IF value = <<>> THEN Err("Path")
    ELSE IF Contains(value, "/") \/ Contains(value, ".") THEN Ok(value)
    ELSE Err("Path")

\* TryFrom<String> for TaskKeyRelative
TaskKeyRelative_try_from(value) ==
    IF value = <<>> THEN Err("Empty")
    ELSE IF Contains(value, "/") \/ Contains(value, ".")
         THEN LET path == PathTaskString_try_from(value)
              IN  IF path.ok THEN Ok([tag |-> "File", s |-> path.val])
                  ELSE Err(path.err)
    ELSE LET phony_name == PhonyTaskString_try_from(value)
         IN  IF phony_name.ok THEN Ok([tag |-> "Phony", s |-> phony_name.val])
             ELSE Err(phony_name.err)

\* The components of a path: the maximal runs of characters other than '/'.
RECURSIVE Components(_)
Components(p) ==
    IF p = <<>> THEN <<>>
    ELSE IF p[1] = "/" THEN Components(Tail(p))
    ELSE LET n == IF \E i \in DOMAIN p : p[i] = "/"
                  THEN (CHOOSE i \in DOMAIN p :
                            /\ p[i] = "/"
                            /\ \A j \in 1..(i - 1) : p[j] # "/") - 1
                  ELSE Len(p)
         IN  <<SubSeq(p, 1, n)>> \o Components(SubSeq(p, n + 1, Len(p)))

\* Removal of the "." and ".." components (parse_dot_from).
RECURSIVE Dedot(_, _)
Dedot(comps, acc) ==
    IF comps = <<>> THEN acc
    ELSE LET c == Head(comps)
         IN  IF c = <<".">> THEN Dedot(Tail(comps), acc)
             ELSE IF c = <<".", ".">>
                  THEN Dedot(Tail(comps),
                             IF acc = <<>> THEN acc
                             ELSE SubSeq(acc, 1, Len(acc) - 1))
             ELSE Dedot(Tail(comps), Append(acc, c))

RECURSIVE Unsplit(_)
Unsplit(comps) ==
    IF comps = <<>> THEN <<>>
    ELSE <<"/">> \o Head(comps) \o Unsplit(Tail(comps))

\* Path::join: an absolute argument replaces the base.
PathJoin(base, p) ==
    IF p # <<>> /\ p[1] = "/" THEN p ELSE base \o <<"/">> \o p

\* normalize_path: the absolute path without dots.
normalize_path(p) ==
    LET comps == Dedot(Components(p), <<>>)
    IN  IF comps = <<>> THEN <<"/">> ELSE Unsplit(comps)

\* get_current_dir(): the directory rusk was started in.
CurrentDir == <<"/", "w">>

Phony(name) == [tag |-> "Phony", s |-> name]
File(path) == [tag |-> "File", s |-> path]

\* TaskKeyRef::new / into_task_key: TaskKeyRelative -> TaskKey
into_task_key(rel, base) ==
    IF rel.tag = "Phony" THEN Phony(rel.s)
    ELSE File(normalize_path(PathJoin(base, rel.s)))

\* The closure f of Rusk::exec: one argument to its TaskKey.
ParseArg(s) ==
    LET key == TaskKeyRelative_try_from(s)
    IN  IF key.ok THEN Ok(into_task_key(key.val, CurrentDir)) ELSE key

-----------------------------------------------------------------------------
(* The inputs of a run *)

KA == Phony(<<"a">>)
KB == Phony(<<"b">>)
KC == Phony(<<"c">>)
KD == Phony(<<"d">>)
FO == File(<<"/", "w", "/", "o">>)
FI == File(<<"/", "w", "/", "i">>)

\* struct Task; a script is its lines, each one the shell parser accepts
\* ("ok") or rejects ("bad"); cwd_is_dir is what cwd.is_dir() answers.
\* An environment maps names to values.
NoEnvs == <<>>
Task(depends) ==
    [depends |-> depends, script |-> <<"ok">>, cwd_is_dir |-> TRUE,
     envs |-> NoEnvs]
BadScript(depends) == [Task(depends) EXCEPT !.script = <<"ok", "bad">>]
BadCwd(depends) == [Task(depends) EXCEPT !.cwd_is_dir = FALSE]
WithEnvs(task, envs) == [task EXCEPT !.envs = envs]

\* ExecuteOpts.envs: empty, or X and Z set by the caller.
GlobalEnvs == {NoEnvs, ("X" :> "g") @@ ("Z" :> "g")}

\* diamond a -> {b, c}, b -> d, c -> d
Diamond ==
    (KA :> Task(<<KB, KC>>)) @@ (KB :> Task(<<KD>>)) @@ (KC :> Task(<<KD>>))
        @@ (KD :> Task(<<>>))
\* two independent tasks and one that needs both
\* a sets X and Y, b sets Y
Fan ==
    (KA :> WithEnvs(Task(<<>>), ("X" :> "a") @@ ("Y" :> "a")))
        @@ (KB :> WithEnvs(Task(<<>>), "Y" :> "b"))
        @@ (KD :> Task(<<KA, KB>>))
\* d shared by a and b, c needed by a alone
Overlap ==
    (KA :> Task(<<KD, KC>>)) @@ (KB :> Task(<<KD>>)) @@ (KC :> Task(<<>>))
        @@ (KD :> Task(<<>>))
\* cycle a -> b -> c -> a, entered from d as well
Cycle ==
    (KA :> Task(<<KB>>)) @@ (KB :> Task(<<KC>>)) @@ (KC :> Task(<<KA>>))
        @@ (KD :> Task(<<KA>>))
\* self-loop, and a dangling phony dependency
SelfLoop == (KA :> Task(<<KA>>)) @@ (KB :> Task(<<KC>>))
\* file task o made from the undefined file i
FileFromFile == (FO :> Task(<<FI>>)) @@ (KA :> Task(<<FO>>))
\* file task o with a file and a phony dependency
FileFromPhony == (FO :> Task(<<FI, KA>>)) @@ (KA :> Task(<<>>))
\* file task o without dependencies
FileAlone == (FO :> Task(<<>>)) @@ (KA :> Task(<<FO, FI>>))
\* file task o made from the file task i
FileChain ==
    (FO :> Task(<<FI>>)) @@ (FI :> Task(<<>>)) @@ (KA :> Task(<<FI, FO>>))
\* a script the shell cannot parse, a cwd that is no directory
Unparsable == (KA :> Task(<<>>)) @@ (KB :> BadScript(<<>>))
NoDirectory == (KA :> Task(<<>>)) @@ (KB :> BadCwd(<<>>))

Registries ==
    {Diamond, Fan, Overlap, Cycle, SelfLoop, FileFromFile, FileFromPhony,
     FileAlone, FileChain, Unparsable, NoDirectory}

ArgStrings ==
    { <<"a">>, <<"b">>, <<"d">>, <<".", "/", "o">>, <<".", "/", "i">>,
      <<"1">>, <<>> }

RECURSIVE SeqsUpTo(_, _)
SeqsUpTo(S, n) ==
    IF n = 0 THEN {<<>>}
    ELSE LET shorter == SeqsUpTo(S, n - 1)
         IN  shorter \cup {Append(q, x) : q \in shorter, x \in S}

Range(q) == {q[i] : i \in DOMAIN q}

\* Every registry over the keys a, b and the file o whose depends lists hold
\* at most two keys each and at most MaxEdges keys together.
SmallKeys == {KA, KB, FO}
DepLists ==
    {<<>>} \cup {<<x>> : x \in SmallKeys}
       \cup {<<x, y>> : x \in SmallKeys, y \in SmallKeys}
RECURSIVE Sum(_, _)
Sum(f, S) ==
    IF S = {} THEN 0
    ELSE LET x == CHOOSE y \in S : TRUE IN f[x] + Sum(f, S \ {x})
Edges(reg) == Sum([k \in DOMAIN reg |-> Len(reg[k].depends)], DOMAIN reg)
SmallRegistries ==
    {reg \in UNION {[D -> {Task(d) : d \in DepLists}] : D \in SUBSET SmallKeys} :
        Edges(reg) <= MaxEdges}

\* The keys a registry names, as keys or as dependencies.
KeysOf(reg) == DOMAIN reg \cup UNION {Range(reg[k].depends) : k \in DOMAIN reg}

\* The file paths a registry names, as keys or as dependencies.
FilesOf(reg) ==
    {k.s : k \in {k \in DOMAIN reg : k.tag = "File"}}
    \cup UNION {{d.s : d \in {d \in Range(reg[k].depends) : d.tag = "File"}}
                : k \in DOMAIN reg}

\* The file paths the arguments name.
ArgFiles(as) ==
    {ParseArg(as[i]).val.s :
        i \in {j \in DOMAIN as : /\ ParseArg(as[j]).ok
                                 /\ ParseArg(as[j]).val.tag = "File"}}

-----------------------------------------------------------------------------
(* Results and states *)

NoResult == [kind |-> "none"]
RuskOk == [kind |-> "Ok"]
\* RuskError
InvalidArgument(e) == [kind |-> "InvalidArgument", err |-> e]
TreeNodeBroken(e) == [kind |-> "TreeNodeBroken", err |-> e]
TaskUnparsable(e) == [kind |-> "TaskUnparsable", err |-> e]
TaskFailed(e) == [kind |-> "TaskFailed", err |-> e]
\* TaskParseError
ScriptParseError(key) == [kind |-> "ScriptParseError", key |-> key]
DirectoryNotFound(key) == [kind |-> "DirectoryNotFound", cwd_of |-> key]
\* TreeNodeCreationError
ItemNotFound(key) == [kind |-> "ItemNotFound", key |-> key]
CircularDependency(key) == [kind |-> "CircularDependency", key |-> key]
\* TaskError
Execution(key, exit_code) ==
    [kind |-> "Execution", key |-> key, exit_code |-> exit_code]
FailedToGetFileMetadata == [kind |-> "FailedToGetFileMetadata"]
DependencyFileNotFound(dep_file, task) ==
    [kind |-> "DependencyFileNotFound", dep_file |-> dep_file, task |-> task]
\* TaskResult
TaskOk == [ok |-> TRUE]
TaskErr(e) == [ok |-> FALSE, err |-> e]

\* enum TaskExecutableState
Initialized(inner) == [st |-> "Initialized", inner |-> inner]
Processing(rx) == [st |-> "Processing", rx |-> rx]
Done(res) == [st |-> "Done", res |-> res]

\* TaskExecutable::empty
TaskExecutable_empty == Done(TaskOk)

\* The value of a watch channel that nothing was sent on.
NoValue == [sent |-> FALSE]

\* Variant: the runner publishes nothing.
Unsent(res) == NoValue

\* The value of a watch channel after tx.send(Some(res)).
Sent(res) == [sent |-> TRUE, res |-> res]

\* RuskfileDeserializeError
DuplicatedTaskName(key) == [kind |-> "DuplicatedTaskName", key |-> key]
DeserializeError == [kind |-> "DeserializeError"]
\* Ok(tasks) of the registry construction
Constructed == [kind |-> "Constructed"]

\* The current configuration file of the registry construction: none.
NoConfig == [configfile_dir |-> <<>>, tasks |-> <<>>]

\* What into_future saw: the modification times of the File dependencies it
\* statted, the target's (0: absent; seen: whether it was statted), what it
\* decided, the environment it gave the shell, and the exit code of the
\* shell once it has returned (exited).
NoGate ==
    [outcome |-> "none", metas |-> <<>>, seen |-> FALSE, target |-> 0,
     envs |-> NoEnvs, exited |-> FALSE, exit_code |-> 0]

-----------------------------------------------------------------------------
(* Rusk::exec up to the resolver: into_executable and the parsing of args *)

Init ==
    /\ tasks \in Registries
    /\ opts \in GlobalEnvs
    /\ composer = <<>>
    /\ unvisited = {}
    /\ config = NoConfig
    /\ args \in SeqsUpTo(ArgStrings, MaxTargets)
    /\ fs \in [FilesOf(tasks) \cup ArgFiles(args) -> 0..MaxTime]
    /\ phase = "convert"
    /\ todo = DOMAIN tasks
    /\ parsed = <<>>
    /\ tk = <<>>
    /\ list = <<>>
    /\ stack = <<>>
    /\ ti = 0
    /\ nodes = <<>>
    /\ roots = <<>>
    /\ cell = <<>>
    /\ chan = <<>>
    /\ fut = <<>>
    /\ result = NoResult
    /\ runs = [k \in KeysOf(tasks) |-> 0]
    /\ execs = [k \in KeysOf(tasks) |-> 0]
    /\ gate = [k \in KeysOf(tasks) |-> NoGate]
    /\ panic = "none"

\* The File dependencies of a task that parsed_tasks holds no entry for:
\* entry_ref(dep).or_insert_with(TaskExecutable::empty)
EmptyDeps(map, depends) ==
    {d \in Range(depends) : d.tag = "File" /\ d \notin DOMAIN map}

\* Variant: the caller's value of a variable wins.
MergedGlobalLast(global_env, envs) ==
    [n \in DOMAIN global_env \cup DOMAIN envs |->
        IF n \in DOMAIN global_env THEN global_env[n] ELSE envs[n]]

\* global_env.clone().into_iter().chain(envs).collect(): the pairs of envs
\* are inserted after those of global_env and replace them.
Merged(global_env, envs) ==
    [n \in DOMAIN global_env \cup DOMAIN envs |->
        IF n \in DOMAIN envs THEN envs[n] ELSE global_env[n]]

\* Variant: an entry that is there already is kept.
KeptIfPresent(map, key, item) == IF key \in DOMAIN map THEN map[key] ELSE item

\* parsed_tasks.insert(key, ..): the entry of key is replaced.
Replaced(map, key, item) == item

\* One iteration of the for loop of into_executable, on the entry of key.
ConvertEntry(map, key, task) ==
    IF \E i \in DOMAIN task.script : task.script[i] = "bad"
    THEN Err(ScriptParseError(key))
    ELSE IF ~task.cwd_is_dir THEN Err(DirectoryNotFound(key))
    ELSE LET withDeps ==
                 [k \in DOMAIN map \cup EmptyDeps(map, task.depends) |->
                     IF k \in DOMAIN map THEN map[k] ELSE TaskExecutable_empty]
             item == Initialized([key |-> key, depends |-> task.depends,
                                  envs |-> Merged(opts, task.envs)])
         IN  Ok([k \in DOMAIN withDeps \cup {key} |->
                     IF k = key THEN Replaced(withDeps, key, item)
                     ELSE withDeps[k]])

Fail(e) ==
    /\ phase' = "returned"
    /\ result' = e

\* into_executable: the HashMap is iterated in an order of its own.
ConvertTask(key) ==
    /\ result = NoResult
    /\ key \in todo
    /\ LET r == ConvertEntry(parsed, key, tasks[key])
       IN  IF r.ok
           THEN /\ parsed' = r.val
                /\ todo' = todo \ {key}
                /\ UNCHANGED <<phase, result>>
           ELSE /\ Fail(TaskUnparsable(r.err))
                /\ UNCHANGED <<parsed, todo>>
    /\ UNCHANGED <<tasks, opts, composer, unvisited, config, args, fs, tk, list, stack, ti, nodes, roots, cell,
                   chan, fut, runs, execs, gate, panic>>

\* collect::<Result<Vec<_>, _>>: the first argument that fails to parse.
FirstBadArg(as) ==
    IF \E i \in DOMAIN as : ~ParseArg(as[i]).ok
    THEN CHOOSE i \in DOMAIN as :
             /\ ~ParseArg(as[i]).ok
             /\ \A j \in 1..(i - 1) : ParseArg(as[j]).ok
    ELSE 0

\* RawOrNode
Raw(item) == [tag |-> "Raw", item |-> item]
Node(id) == [tag |-> "Node", id |-> id]

\* Variant: the arguments are parsed while tasks are still being converted.
ConvertedLazily == TRUE

\* into_executable has returned Ok(parsed_tasks): its loop is exhausted.
Converted == todo = {}

\* Rusk::exec after into_executable returned Ok: the args are parsed and
\* new_vec seeds its hashmap with Raw entries.
ParseArgs ==
    /\ phase = "convert"
    /\ Converted
    /\ LET bad == FirstBadArg(args)
       IN  IF bad # 0
           THEN /\ Fail(InvalidArgument(ParseArg(args[bad]).err))
                /\ UNCHANGED <<tk, list>>
           ELSE /\ tk' = [i \in DOMAIN args |-> ParseArg(args[i]).val]
                /\ list' = [k \in DOMAIN parsed |-> Raw(parsed[k])]
                /\ phase' = "resolve"
                /\ UNCHANGED result
    /\ UNCHANGED <<tasks, opts, composer, unvisited, config, args, fs, todo, parsed, stack, ti, nodes, roots,
                   cell, chan, fut, runs, execs, gate, panic>>

-----------------------------------------------------------------------------
(* TreeNode::new_vec, digraph.rs *)

\* DigraphItem::children of a TaskExecutable
children(item) ==
    IF item.st = "Initialized" THEN item.inner.depends ELSE <<>>

\* Variant: no expansion chain is recorded.
ParentsFree(st) == {}

\* ParentsManager: the keys of the calls of convert that have not returned.
Parents(st) == {st[i].name : i \in DOMAIN st}

\* Variant: the raw item is put back, so a second reference expands it again.
ExpandedAgain(id, item) == Raw(item)

\* The entry convert puts back for a dependency it has expanded.
Expanded(id, item) == Node(id)

Remove(map, key) == [k \in DOMAIN map \ {key} |-> map[k]]
Insert(map, key, val) ==
    [k \in DOMAIN map \cup {key} |-> IF k = key THEN val ELSE map[k]]

\* A call of convert(name, raw, ..) that has looked at none of its
\* dependencies yet.
Frame(name, raw) ==
    [name |-> name, raw |-> raw, i |-> 0, children |-> <<>>]

Top == stack[Len(stack)]
SetTop(st, frame) == [st EXCEPT ![Len(st)] = frame]
Pop(st) == SubSeq(st, 1, Len(st) - 1)

\* The for loop of new_vec takes the next target.
TakeTarget ==
    /\ phase = "resolve"
    /\ stack = <<>>
    /\ ti < Len(tk)
    /\ LET label == tk[ti + 1]
       IN  IF label \notin DOMAIN list
           THEN /\ Fail(TreeNodeBroken(ItemNotFound(label)))
                /\ UNCHANGED <<list, stack, ti>>
           ELSE /\ list' = Remove(list, label)
                /\ ti' = ti + 1
                /\ stack' = IF list[label].tag = "Raw"
                            THEN <<Frame(label, list[label].item)>>
                            ELSE stack
                /\ UNCHANGED <<phase, result>>
    /\ UNCHANGED <<tasks, opts, composer, unvisited, config, args, fs, todo, parsed, tk, nodes, roots, cell, chan,
                   fut, runs, execs, gate, panic>>

\* convert: one iteration of the loop over raw.children().
ConvertDep ==
    /\ phase = "resolve"
    /\ stack # <<>>
    /\ Top.i < Len(children(Top.raw))
    /\ LET dep_name == children(Top.raw)[Top.i + 1]
       IN  IF dep_name \in Parents(stack)
           THEN /\ Fail(TreeNodeBroken(CircularDependency(dep_name)))
                /\ UNCHANGED <<list, stack>>
           ELSE IF dep_name \notin DOMAIN list
           THEN /\ Fail(TreeNodeBroken(ItemNotFound(dep_name)))
                /\ UNCHANGED <<list, stack>>
           ELSE IF list[dep_name].tag = "Raw"
           THEN /\ list' = Remove(list, dep_name)
                /\ stack' = Append(stack, Frame(dep_name, list[dep_name].item))
                /\ UNCHANGED <<phase, result>>
           ELSE /\ list' = Insert(Remove(list, dep_name), dep_name,
                                  Node(list[dep_name].id))
                /\ stack' = SetTop(stack,
                                [Top EXCEPT !.i = @ + 1,
                                            !.children =
                                                Append(@, list[dep_name].id)])
                /\ UNCHANGED <<phase, result>>
    /\ UNCHANGED <<tasks, opts, composer, unvisited, config, args, fs, todo, parsed, tk, ti, nodes, roots, cell,
                   chan, fut, runs, execs, gate, panic>>

\* Variant: a node is put in front of the nodes already there.
PushedFront(vec, id) == <<id>> \o vec

\* children.push(node), roots.push(node)
Pushed(vec, id) == Append(vec, id)

\* convert returns Ok(TreeNode { item: raw, children }): its caller is the
\* convert of the parent, which shares the node, or new_vec, which pushes it
\* to roots.
ConvertReturn ==
    /\ phase = "resolve"
    /\ stack # <<>>
    /\ Top.i = Len(children(Top.raw))
    /\ LET id == Len(nodes) + 1
           rest == Pop(stack)
       IN  /\ nodes' = Append(nodes, [key |-> Top.name,
                                      children |-> Top.children])
           /\ cell' = Insert(cell, id, Top.raw)
           /\ IF rest = <<>>
              THEN /\ roots' = Pushed(roots, id)
                   /\ stack' = rest
                   /\ UNCHANGED list
              ELSE /\ list' = Insert(list, Top.name, Expanded(id, Top.raw))
                   /\ stack' = SetTop(rest,
                                   [rest[Len(rest)] EXCEPT
                                       !.i = @ + 1,
                                       !.children = Pushed(@, id)])
                   /\ UNCHANGED roots
    /\ UNCHANGED <<tasks, opts, composer, unvisited, config, args, fs, phase, todo, parsed, tk, ti, chan, fut,
                   result, runs, execs, gate, panic>>

\* The paths of the forest below the node id reached by path: exec_node is
\* called once for each.
RECURSIVE PathsFrom(_, _, _)
PathsFrom(ns, path, id) ==
    {path} \cup UNION {PathsFrom(ns, Append(path, j), ns[id].children[j])
                       : j \in DOMAIN ns[id].children}

Paths(ns, rs) == UNION {PathsFrom(ns, <<r>>, rs[r]) : r \in DOMAIN rs}

\* The exec_node future of a path: not polled yet.
\* pc: its suspension point; inner, i, metas: the locals of into_future;
\* tx, rx: the channel it sends on, waits on (0: none); ret: what it returned.
NoInner == [key |-> <<>>, depends |-> <<>>, envs |-> NoEnvs]
NewFuture ==
    [pc |-> "new", inner |-> NoInner, i |-> 0, metas |-> <<>>, tx |-> 0,
     rx |-> 0, ret |-> TaskOk]

\* new_vec returns Ok(roots) and exec_all builds the futures of the roots.
ResolveDone ==
    /\ phase = "resolve"
    /\ stack = <<>>
    /\ ti = Len(tk)
    /\ phase' = "exec"
    /\ fut' = [p \in Paths(nodes, roots) |-> NewFuture]
    /\ UNCHANGED <<tasks, opts, composer, unvisited, config, args, fs, todo, parsed, tk, list, stack, ti, nodes,
                   roots, cell, chan, result, runs, execs, gate, panic>>

Resolve == TakeTarget \/ ConvertDep \/ ConvertReturn \/ ResolveDone

-----------------------------------------------------------------------------
(* exec_all, TaskExecutable::as_future, TaskExecutableInner::into_future *)

RECURSIVE NodeAt(_, _, _)
NodeAt(ns, id, rest) ==
    IF rest = <<>> THEN id
    ELSE NodeAt(ns, ns[id].children[Head(rest)], Tail(rest))

\* The node exec_node was called on by the future of path p.
NodeOf(p) == NodeAt(nodes, roots[Head(p)], Tail(p))
KeyOf(p) == nodes[NodeOf(p)].key

\* child_futures of the future of path p
ChildFutures(p) == {Append(p, j) : j \in DOMAIN nodes[NodeOf(p)].children}
ParentFuture(p) == SubSeq(p, 1, Len(p) - 1)
IsPrefix(q, p) == Len(q) <= Len(p) /\ SubSeq(p, 1, Len(q)) = q

\* The part of the state the futures act on, as one value.
Cur ==
    [cell |-> cell, chan |-> chan, fut |-> fut, phase |-> phase,
     result |-> result, runs |-> runs, execs |-> execs, gate |-> gate,
     panic |-> panic]

Apply(S) ==
    /\ cell' = S.cell
    /\ chan' = S.chan
    /\ fut' = S.fut
    /\ phase' = S.phase
    /\ result' = S.result
    /\ runs' = S.runs
    /\ execs' = S.execs
    /\ gate' = S.gate
    /\ panic' = S.panic

\* A future that is suspended inside as_future.
Suspended(f) == f.pc \in {"join", "wait", "statdep", "stattarget", "exists", "shell"}

\* Variant: a pending future survives the first error.
Kept(f) == f

\* try_join_all drops a future that has not finished.
Cancelled(f) == [f EXCEPT !.pc = "dropped"]

\* Variant: the join goes on after an Err (join_all).
Joining(S) == S.phase

\* try_join_all(..).await? on an Err, at every level up to exec_all: the
\* call of exec_all is over.
TryJoining(S) == "returned"

\* as_future returned res to the exec_node of path p.  Ok completes the
\* future.  An Err leaves every enclosing try_join_all(..).await? at once:
\* the futures above p return it, the other unfinished futures are dropped
\* where they are suspended, with the Sender they hold, and exec_all and
\* Rusk::exec return it.
ReturnFrom(S, p, res) ==
    IF res.ok
    THEN [S EXCEPT !.fut[p].pc = "done", !.fut[p].ret = res]
    ELSE [S EXCEPT
            !.fut = [q \in DOMAIN S.fut |->
                        IF q = p
                        THEN [S.fut[q] EXCEPT !.pc = "failed", !.ret = res]
                        ELSE IF IsPrefix(q, p)
                        THEN [S.fut[q] EXCEPT !.pc = "aborted", !.ret = res]
                        ELSE IF Suspended(S.fut[q]) THEN Cancelled(S.fut[q])
                        ELSE S.fut[q]],
            !.chan = [c \in DOMAIN S.chan |->
                        IF \E q \in DOMAIN S.fut :
                               /\ q # p
                               /\ Suspended(S.fut[q])
                               /\ S.fut[q].tx = c
                        THEN [S.chan[c] EXCEPT !.tx = FALSE]
                        ELSE S.chan[c]],
            !.phase = TryJoining(S),
            !.result = TaskFailed(res.err)]

\* An unwrap or unreachable!() of as_future panics: the run ends there.
Panicked(S, kind) == [S EXCEPT !.panic = kind, !.phase = "returned"]

\* Variant: a caller that waits keeps its Ref of the cell across the await.
HeldWhileWaiting(f) == f.pc = "wait"

\* The Ref of self.0 a suspended future holds: the temporary of line 212
\* is dropped at the end of the let statement, before rx.changed().await,
\* and no other borrow of the cell reaches an await.
Held(f) == FALSE

\* self.0.try_borrow_mut() of the future of path p returns an Err: another
\* future holds a borrow of the same cell.
BorrowMutFails(S, p) ==
    \E q \in DOMAIN S.fut \ {p} : NodeOf(q) = NodeOf(p) /\ Held(S.fut[q])

\* A Receiver of channel c is alive: the one stored in a Processing cell,
\* or the clone of a future suspended on rx.changed().
HasReceiver(S, c) ==
    \/ \E n \in DOMAIN S.cell : S.cell[n] = Processing(c)
    \/ \E q \in DOMAIN S.fut : S.fut[q].pc = "wait" /\ S.fut[q].rx = c

\* Variant: the cell records Ok whatever the execution returned.
StoredOk(res) == TaskOk

\* The state as_future leaves in the cell when the execution has ended.
Stored(res) == res

\* as_future, lines 239-244: the runner publishes res, stores it, returns it.
Finished(S, p, res) ==
    LET S1 == [S EXCEPT !.chan[S.fut[p].tx] = [val |-> Sent(res), tx |-> FALSE],
                        !.cell[NodeOf(p)] = Done(Stored(res))]
    IN  IF ~HasReceiver(S, S.fut[p].tx) THEN Panicked(S, "SendError")
        ELSE IF BorrowMutFails(S, p)
        THEN Panicked([S EXCEPT !.chan[S.fut[p].tx] =
                                    [val |-> Sent(res), tx |-> FALSE]],
                      "BorrowMutError")
        ELSE ReturnFrom(S1, p, res)

\* execute_with_pipes(..) is called.
StartShell(S, p) ==
    LET key == S.fut[p].inner.key
    IN  [S EXCEPT !.fut[p].pc = "shell",
                  !.runs[key] = @ + 1,
                  !.gate[key].outcome = "run",
                  !.gate[key].envs = S.fut[p].inner.envs]

\* Variant: the File dependencies are visited last first.
LastFileDep(depends, i) ==
    IF i = 0 /\ \E j \in DOMAIN depends : depends[j].tag = "File"
    THEN CHOOSE j \in DOMAIN depends :
             /\ depends[j].tag = "File"
             /\ \A h \in (j + 1)..Len(depends) : depends[h].tag # "File"
    ELSE IF \E j \in 1..(i - 1) : depends[j].tag = "File"
    THEN CHOOSE j \in 1..(i - 1) :
             /\ depends[j].tag = "File"
             /\ \A h \in (j + 1)..(i - 1) : depends[h].tag # "File"
    ELSE 0

\* The first File dependency after position i, 0 when there is none.
NextFileDep(depends, i) ==
    IF \E j \in (i + 1)..Len(depends) : depends[j].tag = "File"
    THEN CHOOSE j \in (i + 1)..Len(depends) :
             /\ depends[j].tag = "File"
             /\ \A h \in (i + 1)..(j - 1) : depends[h].tag # "File"
    ELSE 0

\* into_future of a File task after the loop over depends (line 277).
AfterFileDeps(S, p) ==
    IF Len(S.fut[p].inner.depends) # Len(S.fut[p].metas)
    THEN StartShell(S, p)
    ELSE [S EXCEPT !.fut[p].pc = "stattarget"]

\* Variant: every key goes through the File arm of the match.
GatedAlways(key) == TRUE

\* match &key: the arm TaskKey::File(file), the staleness gate.
Gated(key) == key.tag = "File"

\* into_future up to its first await.
IntoFuture(S, p) ==
    LET inner == S.fut[p].inner
        j == NextFileDep(inner.depends, 0)
        S1 == [S EXCEPT !.execs[inner.key] = @ + 1,
                        !.gate[inner.key] = NoGate]
    IN  IF j # 0
        THEN [S1 EXCEPT !.fut[p].pc = IF Gated(inner.key)
                                      THEN "statdep" ELSE "exists",
                        !.fut[p].i = j]
        ELSE IF Gated(inner.key) THEN AfterFileDeps(S1, p)
        ELSE StartShell(S1, p)

\* Variant: the cell is left Initialized while the task runs.
Unclaimed(inner, rx) == Initialized(inner)

\* The state std::mem::replace leaves in the cell of the task being run.
Claimed(inner, rx) == Processing(rx)

\* Variant: a caller that was waiting puts the receiver back.
RewrittenProcessing(rx, res) == Processing(rx)

\* Line 243 on the waiting path: the state a caller that found the cell
\* Processing writes once it holds the result.
Rewritten(rx, res) == Done(res)

\* as_future up to its first await.
AsFuture(S, p) ==
    LET n == NodeOf(p)
        state == S.cell[n]
    IN  IF state.st = "Done" THEN ReturnFrom(S, p, state.res)
        ELSE IF state.st = "Processing"
        THEN IF S.chan[state.rx].val.sent
             THEN LET res == S.chan[state.rx].val.res
                  IN  IF BorrowMutFails(S, p)
                      THEN Panicked(S, "BorrowMutError")
                      ELSE ReturnFrom(
                               [S EXCEPT !.cell[n] = Rewritten(state.rx, res)],
                               p, res)
             ELSE [S EXCEPT !.fut[p].pc = "wait", !.fut[p].rx = state.rx]
        ELSE IF BorrowMutFails(S, p) THEN Panicked(S, "BorrowMutError")
        ELSE IF state.st # "Initialized" THEN Panicked(S, "unreachable")
        ELSE LET c == Len(S.chan) + 1
                 S1 == [S EXCEPT
                          !.chan = Append(@, [val |-> NoValue, tx |-> TRUE]),
                          !.cell[n] = Claimed(state.inner, c),
                          !.fut[p].tx = c,
                          !.fut[p].inner = state.inner]
             IN  IntoFuture(S1, p)

\* Variant: one finished child is enough.
SomeChildOk(p) == \E q \in ChildFutures(p) : fut[q].pc = "done"

\* try_join_all(child_futures).await is ready with Ok.
ChildrenOk(p) == \A q \in ChildFutures(p) : fut[q].pc = "done"

\* Variant: a future is polled once the futures before it in the same join
\* are done.
PolledInTurn(p) ==
    /\ Len(p) > 1 => fut[ParentFuture(p)].pc = "join"
    /\ \A j \in 1..(p[Len(p)] - 1) :
          fut[Append(ParentFuture(p), j)].pc = "done"

\* try_join_all polls each of its futures: a child is polled when its
\* parent awaits the join, a root when exec_all does.
Polled(p) == Len(p) > 1 => fut[ParentFuture(p)].pc = "join"

\* The first poll of exec_node on path p.
Poll(p) ==
    /\ phase = "exec"
    /\ fut[p].pc = "new"
    /\ Polled(p)
    /\ IF ChildFutures(p) = {}
       THEN Apply(AsFuture(Cur, p))
       ELSE Apply([Cur EXCEPT !.fut[p].pc = "join"])
    /\ UNCHANGED <<tasks, opts, composer, unvisited, config, args, fs, todo, parsed, tk, list, stack, ti, nodes,
                   roots>>

\* exec_node: the children are done, node.item.as_future() is called.
Joined(p) ==
    /\ phase = "exec"
    /\ fut[p].pc = "join"
    /\ ChildrenOk(p)
    /\ Apply(AsFuture(Cur, p))
    /\ UNCHANGED <<tasks, opts, composer, unvisited, config, args, fs, todo, parsed, tk, list, stack, ti, nodes,
                   roots>>

\* as_future, lines 226-227 and 243: rx.changed() is ready, with Ok when a
\* value was sent, with an Err when the Sender was dropped without sending.
WaiterWakes(p) ==
    /\ phase = "exec"
    /\ fut[p].pc = "wait"
    /\ chan[fut[p].rx].val.sent \/ ~chan[fut[p].rx].tx
    /\ IF ~chan[fut[p].rx].val.sent THEN Apply(Panicked(Cur, "RecvError"))
       ELSE IF BorrowMutFails(Cur, p)
       THEN Apply(Panicked(Cur, "BorrowMutError"))
       ELSE LET res == chan[fut[p].rx].val.res
            IN  Apply(ReturnFrom(
                    [Cur EXCEPT !.cell[NodeOf(p)] = Rewritten(fut[p].rx, res)],
                    p, res))
    /\ UNCHANGED <<tasks, opts, composer, unvisited, config, args, fs, todo, parsed, tk, list, stack, ti, nodes,
                   roots>>

\* The modification time a stat of path returns, 0 when the stat fails.
Stat(path) == IF path \in DOMAIN fs THEN fs[path] ELSE 0

\* into_future of a File task, lines 266-276: the metadata of a dependency.
StatDep(p) ==
    /\ phase = "exec"
    /\ fut[p].pc = "statdep"
    /\ LET inner == fut[p].inner
           dep == inner.depends[fut[p].i]
           m == Stat(dep.s)
           j == NextFileDep(inner.depends, fut[p].i)
           S1 == [Cur EXCEPT !.fut[p].metas = Append(@, m),
                             !.fut[p].i = j,
                             !.gate[inner.key].metas = Append(@, m)]
       IN  IF m = 0
           THEN Apply(Finished(
                    [Cur EXCEPT !.gate[inner.key].outcome = "nodep"], p,
                    TaskErr(DependencyFileNotFound(dep, inner.key))))
           ELSE IF j # 0 THEN Apply(S1)
           ELSE Apply(AfterFileDeps(S1, p))
    /\ UNCHANGED <<tasks, opts, composer, unvisited, config, args, fs, todo, parsed, tk, list, stack, ti, nodes,
                   roots>>

\* Variant: a dependency exactly as old as the target does not force a run.
NotAfter(modified, dep_modified) == modified < dep_modified

\* The comparison that lets a dependency force the script to run (line 293).
Stale(modified, dep_modified) == modified <= dep_modified

\* into_future of a File task, lines 284-300: the metadata of the target.
\* modified() fails on a platform that keeps no modification times.
StatTarget(p) ==
    /\ phase = "exec"
    /\ fut[p].pc = "stattarget"
    /\ LET inner == fut[p].inner
           modified == Stat(inner.key.s)
           S1 == [Cur EXCEPT !.gate[inner.key].seen = TRUE,
                             !.gate[inner.key].target = modified]
       IN  IF modified = 0 THEN Apply(StartShell(S1, p))
           ELSE \E supported \in BOOLEAN :
                    IF ~supported
                    THEN Apply(Finished(
                             [S1 EXCEPT !.gate[inner.key].outcome = "nomtime"],
                             p, TaskErr(FailedToGetFileMetadata)))
                    ELSE IF \E h \in DOMAIN fut[p].metas :
                                Stale(modified, fut[p].metas[h])
                    THEN Apply(StartShell(S1, p))
                    ELSE Apply(Finished(
                             [S1 EXCEPT !.gate[inner.key].outcome = "skip"],
                             p, TaskOk))
    /\ UNCHANGED <<tasks, opts, composer, unvisited, config, args, fs, todo, parsed, tk, list, stack, ti, nodes,
                   roots>>

\* into_future of a Phony task, lines 304-313: try_exists of a dependency.
Exists(p) ==
    /\ phase = "exec"
    /\ fut[p].pc = "exists"
    /\ LET inner == fut[p].inner
           file == inner.depends[fut[p].i]
           j == NextFileDep(inner.depends, fut[p].i)
       IN  IF Stat(file.s) = 0
           THEN Apply(Finished(
                    [Cur EXCEPT !.gate[inner.key].outcome = "nodep"], p,
                    TaskErr(DependencyFileNotFound(file, inner.key))))
           ELSE IF j # 0 THEN Apply([Cur EXCEPT !.fut[p].i = j])
           ELSE Apply(StartShell(Cur, p))
    /\ UNCHANGED <<tasks, opts, composer, unvisited, config, args, fs, todo, parsed, tk, list, stack, ti, nodes,
                   roots>>

\* Variant: the exit code is not looked at.
ExitIgnored(key, exit_code) == TaskOk

\* into_future, lines 330-334: the result for an exit code.
ExitResult(key, exit_code) ==
    IF exit_code = 0 THEN TaskOk ELSE TaskErr(Execution(key, exit_code))

\* into_future, lines 317-335: the shell returns exit_code.  The script of
\* a File task may have written its target.
ShellExit(p) ==
    /\ phase = "exec"
    /\ fut[p].pc = "shell"
    /\ \E exit_code \in 0..MaxExit, wrote \in BOOLEAN :
          LET key == fut[p].inner.key
          IN  /\ fs' = IF wrote /\ key.tag = "File"
                       THEN [fs EXCEPT ![key.s] = MaxTime]
                       ELSE fs
              /\ Apply(Finished(
                     [Cur EXCEPT !.gate[key].exited = TRUE,
                                 !.gate[key].exit_code = exit_code],
                     p, ExitResult(key, exit_code)))
    /\ UNCHANGED <<tasks, opts, composer, unvisited, config, args, todo, parsed, tk, list, stack, ti, nodes,
                   roots>>

\* Variant: one finished root is enough.
SomeRootOk == \E r \in DOMAIN roots : fut[<<r>>].pc = "done"

\* exec_all: try_join_all(futures).await is ready with Ok.
RootsOk == \A r \in DOMAIN roots : fut[<<r>>].pc = "done"

ExecAllReturns ==
    /\ phase = "exec"
    /\ RootsOk
    /\ phase' = "returned"
    /\ result' = RuskOk
    /\ UNCHANGED <<tasks, opts, composer, unvisited, config, args, fs, todo, parsed, tk, list, stack, ti, nodes,
                   roots, cell, chan, fut, runs, execs, gate, panic>>

Next ==
    \/ \E key \in todo : ConvertTask(key)
    \/ ParseArgs
    \/ TakeTarget
    \/ ConvertDep
    \/ ConvertReturn
    \/ ResolveDone
    \/ \E p \in DOMAIN fut : Poll(p)
    \/ \E p \in DOMAIN fut : Joined(p)
    \/ \E p \in DOMAIN fut : WaiterWakes(p)
    \/ \E p \in DOMAIN fut : StatDep(p)
    \/ \E p \in DOMAIN fut : StatTarget(p)
    \/ \E p \in DOMAIN fut : Exists(p)
    \/ \E p \in DOMAIN fut : ShellExit(p)
    \/ ExecAllReturns

Spec == Init /\ [][Next]_vars

\* into_executable when no task is rejected: the loop of ConvertEntry.
RECURSIVE IntoExecutable(_, _, _)
IntoExecutable(reg, keys, map) ==
    IF keys = {} THEN map
    ELSE LET key == CHOOSE k \in keys : TRUE
         IN  IntoExecutable(reg, keys \ {key},
                            ConvertEntry(map, key, reg[key]).val)

\* Rusk::exec at its call of new_vec, for every small registry and every
\* list of targets over its keys (a key is written as its own string).
InitResolve ==
    /\ tasks \in SmallRegistries
    /\ opts = NoEnvs
    /\ composer = <<>>
    /\ unvisited = {}
    /\ config = NoConfig
    /\ args \in SeqsUpTo({k.s : k \in SmallKeys}, MaxLabels)
    /\ fs = [f \in FilesOf(tasks) |-> 0]
    /\ phase = "resolve"
    /\ todo = {}
    /\ parsed = IntoExecutable(tasks, DOMAIN tasks, <<>>)
    /\ tk = [i \in DOMAIN args |-> ParseArg(args[i]).val]
    /\ list = [k \in DOMAIN parsed |-> Raw(parsed[k])]
    /\ stack = <<>>
    /\ ti = 0
    /\ nodes = <<>>
    /\ roots = <<>>
    /\ cell = <<>>
    /\ chan = <<>>
    /\ fut = <<>>
    /\ result = NoResult
    /\ runs = [k \in KeysOf(tasks) |-> 0]
    /\ execs = [k \in KeysOf(tasks) |-> 0]
    /\ gate = [k \in KeysOf(tasks) |-> NoGate]
    /\ panic = "none"

SpecResolve == InitResolve /\ [][Resolve]_vars

-----------------------------------------------------------------------------
(* Key parsing on its own: TaskKeyRelative::try_from on every short string *)

\* A letter of each case, a digit, the two marks a name may hold, the two
\* characters that make a path, and one that fits neither.
Alphabet == {"a", "Z", "1", "_", "-", "/", ".", " "}

InitParse ==
    /\ args \in {<<str>> : str \in SeqsUpTo(Alphabet, MaxStr)}
    /\ phase = "parse"
    /\ result = NoResult
    /\ tasks = <<>>
    /\ opts = NoEnvs
    /\ composer = <<>>
    /\ unvisited = {}
    /\ config = NoConfig
    /\ fs = <<>>
    /\ todo = {}
    /\ parsed = <<>>
    /\ tk = <<>>
    /\ list = <<>>
    /\ stack = <<>>
    /\ ti = 0
    /\ nodes = <<>>
    /\ roots = <<>>
    /\ cell = <<>>
    /\ chan = <<>>
    /\ fut = <<>>
    /\ runs = <<>>
    /\ execs = <<>>
    /\ gate = <<>>
    /\ panic = "none"

\* TaskKeyRelative::try_from(s)
ParseKey ==
    /\ phase = "parse"
    /\ phase' = "returned"
    /\ result' = TaskKeyRelative_try_from(args[1])
    /\ UNCHANGED <<tasks, opts, composer, unvisited, config, args, fs, todo,
                   parsed, tk, list, stack, ti, nodes, roots, cell, chan, fut,
                   runs, execs, gate, panic>>

SpecParse == InitParse /\ [][ParseKey]_vars

-----------------------------------------------------------------------------
(* The order of keys on its own: Ord for TaskKeyRelative on every pair *)

\* The bytes of the characters the compared strings are made of.
Byte == ("/" :> 47) @@ ("1" :> 49) @@ ("a" :> 97)

\* Ord for str: the strings are compared byte by byte, a proper prefix
\* comes first.
RECURSIVE str_cmp(_, _)
str_cmp(a, b) ==
    IF a = <<>> THEN (IF b = <<>> THEN "Equal" ELSE "Less")
    ELSE IF b = <<>> THEN "Greater"
    ELSE IF Byte[Head(a)] < Byte[Head(b)] THEN "Less"
    ELSE IF Byte[Head(a)] > Byte[Head(b)] THEN "Greater"
    ELSE str_cmp(Tail(a), Tail(b))

\* Variant: the strings are compared whatever the variants are.
cmp_by_string(x, y) == str_cmp(x.s, y.s)

\* Ord for TaskKeyRelative
TaskKeyRelative_cmp(x, y) ==
    IF x.tag = "Phony" /\ y.tag = "File" THEN "Less"
    ELSE IF x.tag = "File" /\ y.tag = "Phony" THEN "Greater"
    ELSE str_cmp(x.s, y.s)

\* Every key written with a, 1 and / in at most MaxStr characters.
OrderKeys ==
    {TaskKeyRelative_try_from(str).val :
        str \in {t \in SeqsUpTo(DOMAIN Byte, MaxStr) :
                    TaskKeyRelative_try_from(t).ok}}

InitOrder ==
    /\ tk \in {<<x, y>> : x \in OrderKeys, y \in OrderKeys}
    /\ phase = "order"
    /\ result = NoResult
    /\ args = <<>>
    /\ tasks = <<>>
    /\ opts = NoEnvs
    /\ composer = <<>>
    /\ unvisited = {}
    /\ config = NoConfig
    /\ fs = <<>>
    /\ todo = {}
    /\ parsed = <<>>
    /\ list = <<>>
    /\ stack = <<>>
    /\ ti = 0
    /\ nodes = <<>>
    /\ roots = <<>>
    /\ cell = <<>>
    /\ chan = <<>>
    /\ fut = <<>>
    /\ runs = <<>>
    /\ execs = <<>>
    /\ gate = <<>>
    /\ panic = "none"

\* tk[1].cmp(&tk[2])
CompareKeys ==
    /\ phase = "order"
    /\ phase' = "returned"
    /\ result' = [kind |-> "Ordering", ord |-> TaskKeyRelative_cmp(tk[1], tk[2])]
    /\ UNCHANGED <<tasks, opts, composer, unvisited, config, args, fs, todo,
                   parsed, tk, list, stack, ti, nodes, roots, cell, chan, fut,
                   runs, execs, gate, panic>>

SpecOrder == InitOrder /\ [][CompareKeys]_vars

-----------------------------------------------------------------------------
(* Registry construction: TryFrom<RuskfileComposer> for HashMap<TaskKey, Task> *)

\* NormarizedPath::into_parent: the directory of a configuration file.
into_parent(path) ==
    LET comps == Components(path)
    IN  IF Len(comps) <= 1 THEN <<"/">>
        ELSE Unsplit(SubSeq(comps, 1, Len(comps) - 1))

\* NormarizedPath::as_short_str: the canonical string of a path.
as_short_str(path) == path

\* Variant: a File key is compared by its path from the current directory.
as_ref_rel(key) ==
    LET n == Len(CurrentDir) + 1
    IN  IF key.tag = "Phony" THEN key.s
        ELSE IF /\ Len(key.s) > n
                /\ SubSeq(key.s, 1, n) = CurrentDir \o <<"/">>
        THEN SubSeq(key.s, n + 1, Len(key.s))
        ELSE key.s

\* AsRef<str> for TaskKey
as_ref(key) == IF key.tag = "Phony" THEN key.s ELSE as_short_str(key.s)

\* PartialEq for TaskKey (Hash hashes the same string)
TaskKey_eq(a, b) == as_ref(a) = as_ref(b)

\* Variant: every entry is taken for vacant.
Vacant(map, key) == FALSE

\* tasks.entry_ref(&key) is EntryRef::Occupied
Occupied(map, key) == \E k \in DOMAIN map : TaskKey_eq(k, key)

\* The configuration files: /w/t and /w/s/t.
ConfigPaths == {<<"/", "w", "/", "t">>, <<"/", "w", "/", "s", "/", "t">>}

\* The keys an entry is written under: a, ./o, o/. (the same file as ./o)
\* and ./a (a file named as the phony key)
RelKeys ==
    {TaskKeyRelative_try_from(str).val :
        str \in {<<"a">>, <<".", "/", "o">>, <<"o", "/", ".">>,
                 <<".", "/", "a">>}}

\* TaskDeserializer.inner: a table that TaskDeserializerInner decodes from,
\* or one it does not.
DecodableBody ==
    [decodes |-> TRUE,
     depends |-> <<TaskKeyRelative_try_from(<<".", "/", "i">>).val>>]
BrokenBody == [decodes |-> FALSE, depends |-> <<>>]

\* Result<RuskfileDeserializer, String>
ParsedFiles ==
    {Err("toml")}
    \cup {Ok(f) : f \in UNION {[E -> {DecodableBody, BrokenBody}] :
                                  E \in SUBSET RelKeys}}

Composers == UNION {[P -> ParsedFiles] : P \in SUBSET ConfigPaths}

InitRegistry ==
    /\ composer \in Composers
    /\ unvisited = DOMAIN composer
    /\ config = NoConfig
    /\ tasks = <<>>
    /\ opts = NoEnvs
    /\ args = <<>>
    /\ fs = <<>>
    /\ phase = "compose"
    /\ todo = {}
    /\ parsed = <<>>
    /\ tk = <<>>
    /\ list = <<>>
    /\ stack = <<>>
    /\ ti = 0
    /\ nodes = <<>>
    /\ roots = <<>>
    /\ cell = <<>>
    /\ chan = <<>>
    /\ fut = <<>>
    /\ result = NoResult
    /\ runs = <<>>
    /\ execs = <<>>
    /\ gate = <<>>
    /\ panic = "none"

\* for (path, res) in map: the next file; one that failed to parse is
\* skipped.
NextFile ==
    /\ phase = "compose"
    /\ DOMAIN config.tasks = {}
    /\ \E path \in unvisited :
          /\ unvisited' = unvisited \ {path}
          /\ config' = IF composer[path].ok
                        THEN [configfile_dir |-> into_parent(path),
                              tasks |-> composer[path].val]
                        ELSE NoConfig
    /\ UNCHANGED <<tasks, opts, composer, args, fs, phase, todo, parsed, tk,
                   list, stack, ti, nodes, roots, cell, chan, fut, result,
                   runs, execs, gate, panic>>

\* for (key, ..) in config.tasks: the key is resolved, the body decoded
\* (inner.try_into()?), and the task inserted unless the key is occupied.
NextEntry ==
    /\ phase = "compose"
    /\ \E rel \in DOMAIN config.tasks :
          LET key == into_task_key(rel, config.configfile_dir)
              inner == config.tasks[rel]
              depends == [j \in DOMAIN inner.depends |->
                             into_task_key(inner.depends[j],
                                           config.configfile_dir)]
          IN  /\ config' = [config EXCEPT !.tasks = Remove(@, rel)]
              /\ IF ~inner.decodes
                 THEN Fail(DeserializeError) /\ UNCHANGED tasks
                 ELSE IF Occupied(tasks, key)
                 THEN Fail(DuplicatedTaskName(key)) /\ UNCHANGED tasks
                 ELSE /\ tasks' = Insert(tasks, key, Task(depends))
                      /\ UNCHANGED <<phase, result>>
    /\ UNCHANGED <<opts, composer, unvisited, args, fs, todo, parsed, tk,
                   list, stack, ti, nodes, roots, cell, chan, fut, runs,
                   execs, gate, panic>>

\* Both loops are exhausted: Ok(tasks).
ConstructionDone ==
    /\ phase = "compose"
    /\ unvisited = {}
    /\ DOMAIN config.tasks = {}
    /\ phase' = "returned"
    /\ result' = Constructed
    /\ UNCHANGED <<tasks, opts, composer, unvisited, config, args, fs, todo,
                   parsed, tk, list, stack, ti, nodes, roots, cell, chan, fut,
                   runs, execs, gate, panic>>

NextRegistry == NextFile \/ NextEntry \/ ConstructionDone

SpecRegistry == InitRegistry /\ [][NextRegistry]_vars

-----------------------------------------------------------------------------
(* Claims about the scheduler and the cell *)

Returned(f) == f.pc \in {"done", "failed"}
TargetsAre(ks) == phase # "convert" /\ tk = ks

\* C1: the script of each distinct TaskKey is started at most once, however
\* many parents or roots reach the key; in the diamond with target a, once
\* exec_all has returned, the script of d has run exactly once.
C1_AtMostOnce ==
    /\ \A k \in DOMAIN runs : runs[k] <= 1
    /\ (/\ tasks = Diamond
        /\ TargetsAre(<<KA>>)
        /\ phase = "returned"
        /\ result.kind \in {"Ok", "TaskFailed"}) => runs[KD] = 1

\* The diamond has run to the end, d was awaited by two futures, one of
\* which waited for the other's execution.
C1_Witness ==
    /\ tasks = Diamond
    /\ result = RuskOk
    /\ runs[KD] = 1
    /\ \E p, q \in DOMAIN fut :
          /\ KeyOf(p) = KD /\ KeyOf(q) = KD
          /\ fut[p].tx # 0
          /\ fut[q].rx # 0

\* C2: when the execution of a node has started (its cell has left
\* Initialized), the node has one child per entry of its depends, in that
\* order, and the cell of each child is Done(Ok).
C2_ChildrenFirst ==
    \A n \in DOMAIN nodes :
        LET key == nodes[n].key
        IN  (key \in DOMAIN tasks /\ cell[n].st # "Initialized") =>
                /\ Len(nodes[n].children) = Len(tasks[key].depends)
                /\ \A j \in DOMAIN nodes[n].children :
                      /\ nodes[nodes[n].children[j]].key = tasks[key].depends[j]
                      /\ cell[nodes[n].children[j]] = Done(TaskOk)

\* The script of a, which has two dependencies, has been started.
C2_Witness ==
    /\ tasks = Diamond
    /\ runs[KA] = 1
    /\ \E n \in DOMAIN nodes : nodes[n].key = KA /\ cell[n].st = "Processing"

\* C3: every call of as_future on a cell that has returned has returned the
\* result the cell stores, the one result of the one execution of the cell;
\* a call on a Done cell returns in the same step, and the step executes
\* nothing and leaves the cell as it is.
C3_SameResult ==
    /\ \A k \in DOMAIN execs : execs[k] <= 1
    /\ \A p \in DOMAIN fut :
          Returned(fut[p]) =>
              /\ cell[NodeOf(p)].st = "Done"
              /\ cell[NodeOf(p)].res = fut[p].ret
    /\ \A p, q \in DOMAIN fut :
          (Returned(fut[p]) /\ Returned(fut[q]) /\ NodeOf(p) = NodeOf(q)) =>
              fut[p].ret = fut[q].ret

C3_DoneStep ==
    \A p \in DOMAIN fut :
        (/\ phase = "exec"
         /\ fut[p].pc \in {"new", "join"}
         /\ cell[NodeOf(p)].st = "Done"
         /\ fut'[p].pc \notin {"new", "join", "dropped", "aborted"}) =>
            /\ Returned(fut'[p])
            /\ fut'[p].ret = cell[NodeOf(p)].res
            /\ cell' = cell
            /\ execs' = execs
            /\ runs' = runs

C3_Idempotent == []C3_SameResult /\ [][C3_DoneStep]_vars

\* Two calls on one cell have returned Ok: the one that ran the task and one
\* that waited for it.
C3_Witness ==
    \E p, q \in DOMAIN fut :
        /\ p # q
        /\ NodeOf(p) = NodeOf(q)
        /\ fut[p].pc = "done" /\ fut[q].pc = "done"
        /\ fut[p].tx # 0
        /\ fut[q].rx # 0

\* C4: exec_all returns Ok only when every future has returned Ok, and then
\* every cell of the forest is Done(Ok); it returns an error only when an
\* execution returned that error, which is then the only error of the run.
C4_Result ==
    /\ (phase = "returned" /\ result = RuskOk) =>
          /\ \A p \in DOMAIN fut : fut[p].pc = "done" /\ fut[p].ret = TaskOk
          /\ \A n \in DOMAIN cell : cell[n] = Done(TaskOk)
    /\ result.kind = "TaskFailed" =>
          /\ \E p \in DOMAIN fut :
                /\ fut[p].pc = "failed"
                /\ fut[p].ret = TaskErr(result.err)
                /\ cell[NodeOf(p)] = Done(TaskErr(result.err))
    /\ \A n \in DOMAIN cell :
          (cell[n].st = "Done" /\ ~cell[n].res.ok) =>
              result = TaskFailed(cell[n].res.err)
    /\ \A p \in DOMAIN fut :
          (Returned(fut[p]) /\ ~fut[p].ret.ok) =>
              result = TaskFailed(fut[p].ret.err)

\* exec_all has returned Ok for two roots.
C4_Witness ==
    /\ phase = "returned"
    /\ result = RuskOk
    /\ Len(roots) = 2
    /\ \A n \in DOMAIN cell : runs[nodes[n].key] = 1

-----------------------------------------------------------------------------
(* Claims about the resolver *)

\* The dependency graph new_vec is given: the edges of its input map.
Succ(k) == IF k \in DOMAIN parsed THEN Range(children(parsed[k])) ELSE {}

RECURSIVE Closure(_)
Closure(S) ==
    LET T == S \cup UNION {Succ(k) : k \in S}
    IN  IF T = S THEN S ELSE Closure(T)

OnCycle(k) == k \in Closure(Succ(k))
\* The subgraph reachable from the targets contains a cycle.
Cyclic == \E k \in Closure(Range(tk)) : OnCycle(k)

\* The keys of the current root-to-node expansion chain.
Chain == {stack[i].name : i \in DOMAIN stack}

ResolveError(kind) ==
    /\ result.kind = "TreeNodeBroken"
    /\ result.err.kind = kind

\* The keys on the path p of the forest, root first.
PathKeys(p) == [i \in 1..Len(p) |-> KeyOf(SubSeq(p, 1, i))]

IsCycle3(x, y, z) ==
    /\ {x, y, z} \subseteq DOMAIN parsed
    /\ x # y /\ y # z /\ x # z
    /\ children(parsed[x]) = <<y>>
    /\ children(parsed[y]) = <<z>>
    /\ children(parsed[z]) = <<x>>

\* C5, as claimed: whenever the subgraph reachable from the targets has a
\* cycle, new_vec fails with CircularDependency(K), K a key of the current
\* expansion chain.
C5_AlwaysCircular ==
    (Cyclic /\ phase \in {"exec", "returned"}) =>
        /\ ResolveError("CircularDependency")
        /\ result.err.key \in Chain

\* C5, amended: new_vec never returns Ok when the subgraph reachable from
\* the targets has a cycle; a CircularDependency(K) it returns names a key K
\* of the current expansion chain, which lies on a cycle; an ItemNotFound(K)
\* it returns instead never names a key of the chain; for x -> y -> z -> x
\* and for x -> x with target x it returns CircularDependency(x); and on no
\* path of a forest it returns does a key occur twice.
C5_NoCycleSurvives ==
    /\ phase = "exec" => ~Cyclic
    /\ ResolveError("CircularDependency") =>
          /\ result.err.key \in Chain
          /\ OnCycle(result.err.key)
    /\ ResolveError("ItemNotFound") => result.err.key \notin Chain
    /\ \A x, y, z \in DOMAIN parsed :
          (IsCycle3(x, y, z) /\ tk = <<x>> /\ phase = "returned") =>
              result = TreeNodeBroken(CircularDependency(x))
    /\ \A x \in DOMAIN parsed :
          (children(parsed[x]) = <<x>> /\ tk = <<x>> /\ phase = "returned") =>
              result = TreeNodeBroken(CircularDependency(x))
    /\ phase = "exec" =>
          \A p \in DOMAIN fut :
              \A i, j \in 1..Len(p) :
                  PathKeys(p)[i] = PathKeys(p)[j] => i = j

\* The cycle x -> y -> z -> x was closed at depth three.
C5_Witness ==
    /\ ResolveError("CircularDependency")
    /\ Len(stack) = 3
    /\ result.err.key = stack[1].name
    /\ tk = <<stack[1].name>>

\* C6: new_vec returns ItemNotFound(K) only for a key K that its input map
\* does not hold.
C6_OnlyMissing ==
    ResolveError("ItemNotFound") => result.err.key \notin DOMAIN parsed

\* C7: no two nodes carry the same key, the j-th child of a node is the
\* node of the j-th dependency of its item, and two paths of a returned
\* forest that end in the same key end in the same node, hence in the same
\* cell.
C7_OneNodePerKey ==
    /\ \A i, j \in DOMAIN nodes : nodes[i].key = nodes[j].key => i = j
    /\ \A n \in DOMAIN nodes :
          /\ Len(nodes[n].children) = Len(children(parsed[nodes[n].key]))
          /\ \A j \in DOMAIN nodes[n].children :
                nodes[nodes[n].children[j]].key =
                    children(parsed[nodes[n].key])[j]
    /\ phase = "exec" =>
          \A p, q \in DOMAIN fut : KeyOf(p) = KeyOf(q) => NodeOf(p) = NodeOf(q)

\* A forest was returned in which one node is the child of two others.
C7_Witness ==
    /\ phase = "exec"
    /\ \E p, q \in DOMAIN fut :
          /\ Len(p) > 1 /\ Len(q) > 1
          /\ NodeOf(p) = NodeOf(q)
          /\ NodeOf(ParentFuture(p)) # NodeOf(ParentFuture(q))

-----------------------------------------------------------------------------
(* Claims about the pipeline, cancellation and the staleness gate *)

\* C8: when Rusk::exec has failed with InvalidArgument, with a resolve error
\* or with a parse error, exec_all was never called: no script and no
\* into_future has been started, no future and no channel exists, and every
\* cell is as into_executable made it.
C8_NothingRan ==
    result.kind \in {"InvalidArgument", "TreeNodeBroken", "TaskUnparsable"} =>
        /\ \A k \in DOMAIN runs : runs[k] = 0 /\ execs[k] = 0
        /\ fut = <<>>
        /\ chan = <<>>
        /\ \A n \in DOMAIN cell : cell[n] = parsed[nodes[n].key]
        /\ \A k \in DOMAIN parsed :
              \/ /\ k \in DOMAIN tasks
                 /\ parsed[k].st = "Initialized"
                 /\ parsed[k].inner.key = k
                 /\ parsed[k].inner.depends = tasks[k].depends
              \/ k.tag = "File" /\ parsed[k] = TaskExecutable_empty

\* Resolution failed after it had built nodes.
C8_Witness ==
    /\ result.kind = "TreeNodeBroken"
    /\ Len(nodes) > 0

\* A cell whose script was started and has not finished.
InFlight(n) == cell[n].st = "Processing" /\ runs[nodes[n].key] > 0

Max(S) == CHOOSE m \in S : \A n \in S : n <= m

Fresh(k) ==
    /\ \A j \in DOMAIN tasks[k].depends : tasks[k].depends[j].tag = "File"
    /\ gate[k].seen
    /\ gate[k].target # 0
    /\ gate[k].outcome # "nomtime"
    /\ \A h \in DOMAIN gate[k].metas : gate[k].target > gate[k].metas[h]

C10_SkipIffFresh ==
    \A k \in DOMAIN gate :
        (k.tag = "File" /\ gate[k].outcome \in {"skip", "run", "nomtime"}) =>
            /\ gate[k].outcome = "skip" <=> Fresh(k)
            /\ gate[k].outcome = "skip" =>
                  /\ runs[k] = 0
                  /\ \A n \in DOMAIN nodes :
                        nodes[n].key = k => cell[n] = Done(TaskOk)
            /\ gate[k].outcome = "run" => runs[k] = 1

\* The script of a File task was run because a dependency was exactly as
\* old as the target.
C10_Witness ==
    \E k \in DOMAIN gate :
        /\ k.tag = "File"
        /\ gate[k].outcome = "run"
        /\ gate[k].seen
        /\ gate[k].target # 0
        /\ gate[k].metas # <<>>
        /\ gate[k].target = Max(Range(gate[k].metas))

-----------------------------------------------------------------------------
(* Claims about into_future *)

FileDeps(k) == {d \in Range(tasks[k].depends) : d.tag = "File"}

\* C11: a Phony task never goes through the staleness gate: no future of a
\* Phony key stats a modification time, its gate is never decided as skip,
\* and once its into_future has checked the existence of its File
\* dependencies its script has been invoked; it fails without a run only
\* with a File dependency that does not exist, and it is Done(Ok) only
\* after its script was run.
C11_PhonyNeverSkipped ==
    /\ \A p \in DOMAIN fut :
          KeyOf(p).tag = "Phony" => fut[p].pc \notin {"statdep", "stattarget"}
    /\ \A k \in DOMAIN tasks :
          k.tag = "Phony" =>
              /\ gate[k].outcome \in {"none", "run", "nodep"}
              /\ ~gate[k].seen /\ gate[k].metas = <<>>
              /\ (/\ phase = "exec"
                  /\ execs[k] > 0
                  /\ \A p \in DOMAIN fut :
                        KeyOf(p) = k => fut[p].pc # "exists") => runs[k] = 1
              /\ gate[k].outcome = "nodep" =>
                    /\ runs[k] = 0
                    /\ \E d \in FileDeps(k) : Stat(d.s) = 0
              /\ \A n \in DOMAIN cell :
                    (nodes[n].key = k /\ cell[n] = Done(TaskOk)) => runs[k] = 1

\* The script of a Phony task was run although one of its File
\* dependencies is as new as a file can be.
C11_Witness ==
    \E k \in DOMAIN tasks :
        /\ k.tag = "Phony"
        /\ runs[k] = 1
        /\ \E d \in FileDeps(k) : Stat(d.s) = MaxTime
        /\ \A d \in FileDeps(k) : Stat(d.s) # 0

Missing(k) == {j \in DOMAIN tasks[k].depends :
                  tasks[k].depends[j].tag = "File"
                  /\ Stat(tasks[k].depends[j].s) = 0}

\* The first File dependency of k, in declared order, that does not exist.
FirstMissing(k) ==
    tasks[k].depends[CHOOSE j \in Missing(k) : \A h \in Missing(k) : j <= h]

\* C12: a task K, Phony or File, whose into_future has begun while one of
\* its File dependencies does not exist never has its script invoked; while
\* the run goes on K is still checking its dependencies, and when K has
\* decided, its result, and the result of the run, is
\* DependencyFileNotFound{dep_file: F, task: K} with F the first missing
\* File dependency in declared order, whether or not K has a Phony
\* dependency.
C12_FirstMissingDep ==
    \A k \in DOMAIN tasks :
        /\ (execs[k] > 0 /\ Missing(k) # {}) =>
              /\ runs[k] = 0
              /\ gate[k].outcome \in {"none", "nodep"}
              /\ phase = "exec" =>
                    \E p \in DOMAIN fut :
                        KeyOf(p) = k /\ fut[p].pc \in {"statdep", "exists"}
        /\ gate[k].outcome = "nodep" =>
              /\ Missing(k) # {}
              /\ result =
                    TaskFailed(DependencyFileNotFound(FirstMissing(k), k))
              /\ \A n \in DOMAIN cell :
                    nodes[n].key = k =>
                        cell[n] = Done(TaskErr(
                            DependencyFileNotFound(FirstMissing(k), k)))

\* A File task with a Phony dependency failed on its missing File
\* dependency.
C12_Witness ==
    \E k \in DOMAIN tasks :
        /\ k.tag = "File"
        /\ \E d \in Range(tasks[k].depends) : d.tag = "Phony"
        /\ gate[k].outcome = "nodep"
        /\ runs[k] = 0

-----------------------------------------------------------------------------
(* Claims about File keys without a definition *)

\* The File keys that some task depends on and no task defines.
UndefinedFiles == {k \in KeysOf(tasks) \ DOMAIN tasks : k.tag = "File"}

\* The part of C13 that does not concern resolution: the node of an
\* undefined File dependency has no children and a cell that is Done(Ok)
\* from the start, and nothing is ever executed for it.
EmptyExecutable(k) ==
    /\ \A n \in DOMAIN nodes : nodes[n].key = k => nodes[n].children = <<>>
    /\ \A n \in DOMAIN cell : nodes[n].key = k => cell[n] = Done(TaskOk)
    /\ runs[k] = 0
    /\ execs[k] = 0

\* C13: a File key that a task depends on and that no task defines is not
\* an error: resolution never returns ItemNotFound for it, its node has no
\* children, and running it invokes no script and yields Ok.
C13_UndefinedFileDepOk ==
    \A k \in UndefinedFiles :
        /\ ~(ResolveError("ItemNotFound") /\ result.err.key = k)
        /\ EmptyExecutable(k)

\* C14: when the only target is a File key without a registry entry, the
\* run succeeds if and only if that file exists.
C14_FileTargetIffExists ==
    (/\ phase = "returned"
     /\ Len(tk) = 1
     /\ tk[1].tag = "File"
     /\ tk[1] \notin DOMAIN tasks) =>
        (result = RuskOk <=> Stat(tk[1].s) # 0)

-----------------------------------------------------------------------------
(* Claims about the shell *)

\* C15: when the shell of task K has returned exit_code, K's result is Ok
\* if exit_code is 0 and Execution{key: K, exit_code} with that same code
\* otherwise, which is then the error of the run; a cell holds an Execution
\* error only for its own key and the code its shell returned, and a task
\* whose script was run is Done(Ok) only after exit code 0.
C15_ExitCode ==
    \A k \in DOMAIN tasks :
        /\ gate[k].exited =>
              /\ runs[k] = 1
              /\ \A n \in DOMAIN cell :
                    nodes[n].key = k =>
                        cell[n] = IF gate[k].exit_code = 0
                                  THEN Done(TaskOk)
                                  ELSE Done(TaskErr(
                                      [kind |-> "Execution", key |-> k,
                                       exit_code |-> gate[k].exit_code]))
              /\ gate[k].exit_code # 0 =>
                    result = TaskFailed([kind |-> "Execution", key |-> k,
                                         exit_code |-> gate[k].exit_code])
        /\ \A n \in DOMAIN cell :
              (nodes[n].key = k /\ cell[n].st = "Done") =>
                  /\ (~cell[n].res.ok /\ cell[n].res.err.kind = "Execution") =>
                        /\ gate[k].exited
                        /\ cell[n].res.err.key = k
                        /\ cell[n].res.err.exit_code = gate[k].exit_code
                        /\ gate[k].exit_code # 0
                  /\ (cell[n].res.ok /\ runs[k] = 1) =>
                        gate[k].exited /\ gate[k].exit_code = 0

\* A script exited with the largest code while another task had exited
\* with 0.
C15_Witness ==
    \E k, h \in DOMAIN tasks :
        /\ gate[k].exited /\ gate[k].exit_code = MaxExit
        /\ gate[h].exited /\ gate[h].exit_code = 0

\* C16: the environment the shell of task K is given holds exactly the
\* variables of the global envs and of K's envs, a variable of both with
\* K's value and any other with the value of the map it comes from; a
\* variable that only another task sets is not in it.
C16_MergedEnv ==
    \A k \in DOMAIN tasks :
        runs[k] > 0 =>
            LET env == gate[k].envs
            IN  /\ DOMAIN env = DOMAIN opts \cup DOMAIN tasks[k].envs
                /\ \A n \in DOMAIN tasks[k].envs : env[n] = tasks[k].envs[n]
                /\ \A n \in DOMAIN opts \ DOMAIN tasks[k].envs :
                      env[n] = opts[n]
                /\ \A h \in DOMAIN tasks \ {k} :
                      \A n \in DOMAIN tasks[h].envs :
                          \/ n \notin DOMAIN env
                          \/ n \in DOMAIN tasks[k].envs
                          \/ n \in DOMAIN opts /\ env[n] = opts[n]

\* Two scripts were run: one of a task that overrides a global variable
\* and sets a second one, which the other task sets to another value.
C16_Witness ==
    \E k, h \in DOMAIN tasks :
        /\ k # h
        /\ runs[k] > 0 /\ runs[h] > 0
        /\ \E n \in DOMAIN opts \cap DOMAIN tasks[k].envs :
              opts[n] # tasks[k].envs[n]
        /\ \E n \in DOMAIN tasks[k].envs \cap DOMAIN tasks[h].envs :
              gate[k].envs[n] # gate[h].envs[n]
        /\ DOMAIN opts \ DOMAIN tasks[k].envs # {}

-----------------------------------------------------------------------------
(* Claims about the construction of the registry *)

\* The task entries of the files that parsed: <<config path, relative key>>.
Entries ==
    {e \in ConfigPaths \X RelKeys :
        /\ e[1] \in DOMAIN composer
        /\ composer[e[1]].ok
        /\ e[2] \in DOMAIN composer[e[1]].val}

Resolved(e) == into_task_key(e[2], into_parent(e[1]))
Body(e) == composer[e[1]].val[e[2]]

\* Two entries resolve to the same TaskKey.
HasDuplicate == \E e1, e2 \in Entries : e1 # e2 /\ Resolved(e1) = Resolved(e2)
\* An entry has a body that does not decode.
HasBroken == \E e \in Entries : ~Body(e).decodes

\* C17, as claimed: whenever two entries resolve to the same TaskKey the
\* construction fails with DuplicatedTaskName, in whatever order the files
\* and entries are visited.
C17_AlwaysDuplicated ==
    (phase = "returned" /\ HasDuplicate) => result.kind = "DuplicatedTaskName"

\* C17, amended: when two entries resolve to the same TaskKey the
\* construction never succeeds, in whatever order the files and entries are
\* visited; it fails with DuplicatedTaskName(key), key being equal to the
\* resolved keys of two entries, unless an entry whose body does not decode
\* is visited first, which makes it fail with DeserializeError; and when it
\* succeeds, every resolved key maps to the definition of its one entry.
C17_NoDuplicateSurvives ==
    /\ (phase = "returned" /\ HasDuplicate) =>
          /\ result.kind \in {"DuplicatedTaskName", "DeserializeError"}
          /\ ~HasBroken => result.kind = "DuplicatedTaskName"
    /\ result.kind = "DuplicatedTaskName" =>
          \E e1, e2 \in Entries :
              /\ e1 # e2
              /\ TaskKey_eq(Resolved(e1), result.key)
              /\ TaskKey_eq(Resolved(e2), result.key)
    /\ result.kind = "DeserializeError" => HasBroken
    /\ result.kind = "Constructed" =>
          /\ ~HasDuplicate
          /\ DOMAIN tasks = {Resolved(e) : e \in Entries}
          /\ \A e \in Entries :
                tasks[Resolved(e)].depends =
                    [j \in DOMAIN Body(e).depends |->
                        into_task_key(Body(e).depends[j], into_parent(e[1]))]

\* The construction failed on two spellings of one file key in the same
\* configuration file.
C17_Witness ==
    /\ result.kind = "DuplicatedTaskName"
    /\ result.key.tag = "File"
    /\ \E e1, e2 \in Entries :
          /\ e1 # e2
          /\ e1[1] = e2[1]
          /\ Resolved(e1) = result.key
          /\ Resolved(e2) = result.key

-----------------------------------------------------------------------------
(* Claims about key parsing *)

\* s matches ^[A-Za-z][A-Za-z0-9_-]*$
MatchesPhony(str) ==
    /\ str # <<>>
    /\ str[1] \in Letters
    /\ \A i \in 2..Len(str) : str[i] \in Letters \cup Digits \cup {"_", "-"}

HasPathChar(str) == \E i \in DOMAIN str : str[i] \in {"/", "."}

\* C18: parsing s into a relative key gives the Empty error when s is
\* empty, the File variant holding s unchanged when s contains '/' or '.',
\* otherwise the Phony variant holding s when s matches
\* ^[A-Za-z][A-Za-z0-9_-]*$ and a parse error when it does not.
C18_ParseRelative ==
    phase = "returned" =>
        LET str == args[1]
        IN  /\ str = <<>> => result = [ok |-> FALSE, err |-> "Empty"]
            /\ HasPathChar(str) =>
                  result = [ok |-> TRUE, val |-> [tag |-> "File", s |-> str]]
            /\ (~HasPathChar(str) /\ MatchesPhony(str)) =>
                  result = [ok |-> TRUE, val |-> [tag |-> "Phony", s |-> str]]
            /\ (str # <<>> /\ ~HasPathChar(str) /\ ~MatchesPhony(str)) =>
                  /\ ~result.ok
                  /\ result.err # "Empty"

\* A name that starts with a digit and is otherwise well formed was
\* rejected.
C18_Witness ==
    /\ phase = "returned"
    /\ Len(args[1]) > 1
    /\ args[1][1] \in Digits
    /\ \A i \in 2..Len(args[1]) : args[1][i] \in Letters
    /\ ~result.ok

-----------------------------------------------------------------------------
(* Claims about the states of a cell *)

\* The futures that took the Initialized branch of the cell of node n.
Runners(n) == {p \in DOMAIN fut : NodeOf(p) = n /\ fut[p].tx # 0}

\* At most one caller has taken the Initialized branch of a cell, and it
\* left the cell Processing; a cell that is still Initialized was taken by
\* none; a caller that waits is not the runner and waits on the channel of
\* the runner.
C19_OneRunner ==
    \A n \in DOMAIN cell :
        /\ Cardinality(Runners(n)) <= 1
        /\ execs[nodes[n].key] <= 1
        /\ cell[n].st = "Initialized" =>
              /\ Runners(n) = {}
              /\ execs[nodes[n].key] = 0
        /\ \A p \in DOMAIN fut :
              (NodeOf(p) = n /\ fut[p].pc = "wait") =>
                  /\ fut[p].tx = 0
                  /\ \E q \in Runners(n) : q # p /\ fut[q].tx = fut[p].rx

\* A caller that arrives at a cell that is Processing joins the waiter (or
\* returns what the channel already holds) and starts neither into_future
\* nor a script.
C19_ArrivalStep ==
    \A p \in DOMAIN fut :
        (/\ p \in DOMAIN fut'
         /\ fut[p].pc \in {"new", "join"}
         /\ cell[NodeOf(p)].st = "Processing"
         /\ fut'[p].pc \notin {"new", "join", "dropped", "aborted"}) =>
            /\ fut'[p].pc \in {"wait", "done", "failed"}
            /\ fut'[p].tx = 0
            /\ runs' = runs
            /\ execs' = execs

\* C19: the step from observing a cell Initialized to leaving it Processing
\* is one step of one caller: in every interleaving at most one caller
\* takes the Initialized branch of a cell, and a caller that arrives while
\* the cell is Processing joins the waiter and does not execute the script.
C19_NoGap == []C19_OneRunner /\ [][C19_ArrivalStep]_vars

\* A caller waits on a cell whose script is being run by another caller.
C19_Witness ==
    \E p, q \in DOMAIN fut :
        /\ p # q
        /\ NodeOf(p) = NodeOf(q)
        /\ fut[p].pc = "wait"
        /\ fut[q].pc = "shell"
        /\ runs[KeyOf(q)] = 1

\* Initialized, Processing, Done in the order a cell goes through them.
Rank(state) ==
    IF state.st = "Initialized" THEN 0
    ELSE IF state.st = "Processing" THEN 1
    ELSE 2

C20_Step ==
    \A n \in DOMAIN cell :
        n \in DOMAIN cell' =>
            /\ Rank(cell'[n]) >= Rank(cell[n])
            /\ (cell[n].st = "Initialized" /\ cell'[n] # cell[n]) =>
                  cell'[n].st = "Processing"
            /\ cell[n].st = "Processing" =>
                  \/ cell'[n] = cell[n]
                  \/ cell'[n].st = "Done"
            /\ cell[n].st = "Done" => cell'[n] = cell[n]

\* C20: in every step the state of every cell stays what it is or moves
\* from Initialized to Processing or from Processing to Done; a Processing
\* cell keeps its receiver, and a cell that is Done keeps its result for
\* good, also when a waiter writes Done again.
C20_Forward == [][C20_Step]_vars

\* Cells in each of the three states, the Done one after an execution.
C20_Witness ==
    \E n1, n2, n3 \in DOMAIN cell :
        /\ cell[n1].st = "Initialized"
        /\ cell[n2].st = "Processing"
        /\ cell[n3].st = "Done"
        /\ execs[nodes[n3].key] = 1
        /\ \E p \in DOMAIN fut :
              NodeOf(p) = n3 /\ fut[p].pc = "done" /\ fut[p].rx # 0

-----------------------------------------------------------------------------
(* Claims about skipped targets, termination and panics *)

\* The key k is the key of a child of some node built so far.
IsDependency(k) ==
    \E n \in DOMAIN nodes : \E j \in DOMAIN nodes[n].children :
        nodes[nodes[n].children[j]].key = k

\* C21: a target that was already expanded as a dependency of an earlier
\* target adds no root and does not fail the resolution, and every target of
\* a returned forest is the key of one of its nodes.
C21_SkippedTargetSucceeds ==
    /\ (ResolveError("ItemNotFound") /\ stack = <<>>) =>
          ~IsDependency(tk[ti + 1])
    /\ phase = "exec" =>
          \A i \in DOMAIN tk : \E p \in DOMAIN fut : KeyOf(p) = tk[i]

\* The steps of exec_all and of the futures it drives.
ExecAll ==
    \/ \E p \in DOMAIN fut : Poll(p)
    \/ \E p \in DOMAIN fut : Joined(p)
    \/ \E p \in DOMAIN fut : WaiterWakes(p)
    \/ \E p \in DOMAIN fut : StatDep(p)
    \/ \E p \in DOMAIN fut : StatTarget(p)
    \/ \E p \in DOMAIN fut : Exists(p)
    \/ \E p \in DOMAIN fut : ShellExit(p)
    \/ ExecAllReturns

\* The run under an executor that polls a future that is ready and under
\* shell executions and stats that end: while exec_all can take a step, a
\* step of exec_all is taken.  The caller sets no environment.
InitFair == Init /\ opts = NoEnvs
FairSpec == InitFair /\ [][Next]_vars /\ WF_vars(ExecAll)

\* The future of path p runs the task of its cell: it holds the Sender.
IsRunner(p) == fut[p].tx # 0 /\ chan[fut[p].tx].tx

\* The futures suspended on rx.changed().
Waiters == {p \in DOMAIN fut : fut[p].pc = "wait"}

\* While exec_all runs, a waiter waits on a channel whose Sender is held by
\* a future that is suspended inside into_future or that has published.
C22_WaitersServed ==
    phase = "exec" =>
        \A p \in Waiters :
            \/ chan[fut[p].rx].val.sent
            \/ \E q \in DOMAIN fut :
                   /\ IsRunner(q)
                   /\ fut[q].tx = fut[p].rx
                   /\ fut[q].pc \in {"statdep", "stattarget", "exists", "shell"}

\* A runner is suspended inside into_future only, never on a join or on
\* another cell.
C22_RunnerNeverWaits ==
    phase = "exec" =>
        \A p \in DOMAIN fut :
            IsRunner(p) =>
                /\ cell[NodeOf(p)] = Processing(fut[p].tx)
                /\ fut[p].pc \in {"statdep", "stattarget", "exists", "shell"}

\* C22: when every shell execution and every stat ends, exec_all returns on
\* every resolved forest: no waiter waits on a cell that will never publish,
\* a runner never waits while its cell is Processing, and no waiter is left
\* suspended.
C22_Terminates ==
    /\ [](C22_WaitersServed /\ C22_RunnerNeverWaits)
    /\ (phase = "exec") ~> (phase = "returned" /\ Waiters = {})

\* exec_all has returned Ok after a caller that found its cell Processing
\* had subscribed and was woken.
C22_Witness ==
    /\ result = RuskOk
    /\ \E p \in DOMAIN fut : fut[p].rx # 0 /\ fut[p].pc = "done"

\* C23: as_future never panics: no try_borrow_mut meets a live borrow, the
\* replace always finds the cell Initialized, tx.send always finds a live
\* Receiver, and rx.changed() is never polled after its Sender was dropped
\* without publishing.
C23_NoPanic ==
    /\ panic = "none"
    /\ phase = "exec" =>
          \A p \in Waiters :
              chan[fut[p].rx].val.sent \/ chan[fut[p].rx].tx

\* A task failed while a sibling was running a task, its cell Processing,
\* and another was waiting for it: both were dropped, the Sender with them,
\* and nothing panicked.
C23_Witness ==
    /\ result.kind = "TaskFailed"
    /\ panic = "none"
    /\ \E p, q \in DOMAIN fut :
          /\ fut[p].pc = "dropped" /\ fut[p].tx # 0
          /\ cell[NodeOf(p)] = Processing(fut[p].tx)
          /\ ~chan[fut[p].tx].val.sent /\ ~chan[fut[p].tx].tx
          /\ fut[q].pc = "dropped" /\ fut[q].rx = fut[p].tx

-----------------------------------------------------------------------------
(* Claims about errors, ordering and the stages of Rusk::exec *)

\* The keys whose execution has returned an error: a dependency file was
\* missing, the metadata could not be read, or the script exited non-zero.
FailedKeys ==
    {k \in DOMAIN gate :
        \/ gate[k].outcome \in {"nodep", "nomtime"}
        \/ gate[k].exited /\ gate[k].exit_code # 0}

\* Nothing starts and nothing resumes once an execution returned an error.
C24_Step ==
    FailedKeys # {} =>
        /\ runs' = runs /\ execs' = execs
        /\ cell' = cell /\ fut' = fut /\ chan' = chan

\* C24: once an execution has returned an error the run is over in the same
\* step: exec_all has returned it, no future is left suspended, and from
\* then on no script is started, no cell changes and no waiter is resumed.
C24_ErrorStopsRun ==
    /\ [](FailedKeys # {} =>
            /\ phase = "returned"
            /\ result.kind = "TaskFailed"
            /\ \A p \in DOMAIN fut : ~Suspended(fut[p]))
    /\ [][C24_Step]_vars

\* A task failed while another was still Initialized, a future had not been
\* polled and a waiter was suspended: the waiter was dropped.
C24_Witness ==
    /\ FailedKeys # {}
    /\ \E n \in DOMAIN cell : cell[n].st = "Initialized"
    /\ \E p \in DOMAIN fut : fut[p].pc = "dropped" /\ fut[p].rx # 0
    /\ \A k \in DOMAIN runs : runs[k] <= 1

\* The futures that run a script for a cell that is Processing.
InShell ==
    {p \in DOMAIN fut :
        fut[p].pc = "shell" /\ cell[NodeOf(p)] = Processing(fut[p].tx)}

\* C25: the scheduler orders no two tasks without a dependency path
\* between them: while exec_all runs, every root and every child of a node
\* that awaits its join can be started whatever its siblings have done, and
\* every script that runs can be the next to complete.
C25_Unordered ==
    phase = "exec" =>
        /\ \A p \in DOMAIN fut :
              (/\ fut[p].pc = "new"
               /\ Len(p) > 1 => fut[ParentFuture(p)].pc = "join")
                  => ENABLED Poll(p)
        /\ \A p \in InShell : ENABLED ShellExit(p)

\* The scripts of a and b, which do not depend on each other, run at the
\* same time, both cells Processing: either can be the first to complete.
C25_Witness ==
    /\ phase = "exec"
    /\ \E p, q \in InShell :
          /\ KeyOf(p) = KA /\ KeyOf(q) = KB
          /\ KB \notin Range(tasks[KA].depends)
          /\ KA \notin Range(tasks[KB].depends)

\* The targets from the i-th on that no earlier target reaches through the
\* depends lists.
RECURSIVE Unreached(_, _)
Unreached(ts, i) ==
    IF i > Len(ts) THEN <<>>
    ELSE (IF \E j \in 1..(i - 1) : ts[i] \in Closure(Succ(ts[j]))
          THEN <<>> ELSE <<ts[i]>>) \o Unreached(ts, i + 1)

\* C26: in a returned forest the keys of the children of each node are the
\* depends list of its task, in its order and with its repetitions, and the
\* keys of the roots are the targets that were not skipped, in the order of
\* the targets.
C26_OrderKept ==
    phase = "exec" =>
        /\ \A n \in DOMAIN nodes :
              [j \in DOMAIN nodes[n].children |->
                  nodes[nodes[n].children[j]].key]
                  = children(parsed[nodes[n].key])
        /\ [r \in DOMAIN roots |-> nodes[roots[r]].key] = Unreached(tk, 1)

\* A forest with two roots was returned for three targets, the second one
\* skipped, and its first root has two children, the first of them the node
\* of the skipped target.
C26_Witness ==
    /\ phase = "exec"
    /\ Len(tk) = 3 /\ Len(roots) = 2
    /\ nodes[roots[2]].key = tk[3]
    /\ Len(nodes[roots[1]].children) = 2
    /\ nodes[nodes[roots[1]].children[1]].key = tk[2]

\* The tasks into_executable rejects: a script line the shell parser does
\* not accept, or a cwd that is no directory.
Unconvertible ==
    {k \in DOMAIN tasks :
        "bad" \in Range(tasks[k].script) \/ ~tasks[k].cwd_is_dir}

\* C27: Rusk::exec converts every task of the registry, then parses the
\* arguments, then resolves, then schedules, and the first stage that fails
\* gives the error: a task that cannot be converted gives TaskUnparsable
\* whatever the arguments are, an argument that cannot be parsed gives
\* InvalidArgument whatever the registry holds for the others, and the
\* resolver and the scheduler start only after both stages passed.
C27_StageOrder ==
    /\ phase \in {"resolve", "exec"} =>
          Unconvertible = {} /\ FirstBadArg(args) = 0
    /\ phase = "returned" =>
          IF Unconvertible # {}
          THEN /\ result.kind = "TaskUnparsable"
               /\ result.err \in
                      {ScriptParseError(k) : k \in Unconvertible}
                          \cup {DirectoryNotFound(k) : k \in Unconvertible}
          ELSE IF FirstBadArg(args) # 0
          THEN result = InvalidArgument(ParseArg(args[FirstBadArg(args)]).err)
          ELSE result.kind \in {"TreeNodeBroken", "TaskFailed", "Ok"}

\* TaskUnparsable was returned for the task b, which no target reaches,
\* although the first argument is no key and the second names no task.
C27_Witness ==
    /\ tasks \in {Unparsable, NoDirectory}
    /\ args = << <<"1">>, <<"d">> >>
    /\ result.kind = "TaskUnparsable"

\* An entry of parsed_tasks that is Initialized stays as it is.
C28_Step ==
    \A k \in DOMAIN parsed :
        parsed[k].st = "Initialized" =>
            k \in DOMAIN parsed' /\ parsed'[k] = parsed[k]

\* C28: a File key that is defined as a task is mapped by into_executable
\* to the executable of that task, Initialized, also when it is a
\* dependency of another task, in whatever order the entries are taken: the
\* placeholder is left only for keys the registry does not define.
C28_DefinedFileKept ==
    /\ [](\A k \in DOMAIN tasks \ todo :
            /\ k \in DOMAIN parsed
            /\ parsed[k].st = "Initialized"
            /\ parsed[k].inner.key = k
            /\ parsed[k].inner.depends = tasks[k].depends)
    /\ [][C28_Step]_vars

\* into_executable has returned for the registry in which the file task i
\* is a dependency of the file task o and of a: i and o are Initialized.
C28_Witness ==
    /\ tasks = FileChain
    /\ phase = "resolve"
    /\ parsed[FI].st = "Initialized" /\ parsed[FO].st = "Initialized"

-----------------------------------------------------------------------------
(* Claims about the identity and the order of keys *)

LexLess(a, b) ==
    \E i \in 1..Len(b) :
        /\ i <= Len(a) + 1
        /\ SubSeq(a, 1, i - 1) = SubSeq(b, 1, i - 1)
        /\ i = Len(a) + 1 \/ Byte[a[i]] < Byte[b[i]]

\* x comes before y: a Phony key before a File key, two keys of one variant
\* by their strings.
KeyLess(x, y) ==
    \/ x.tag = "Phony" /\ y.tag = "File"
    \/ x.tag = y.tag /\ LexLess(x.s, y.s)

Reverse(ord) ==
    IF ord = "Less" THEN "Greater" ELSE IF ord = "Greater" THEN "Less"
    ELSE "Equal"

\* C30: the comparison of keys is a total order that agrees with equality:
\* it answers Equal exactly for equal keys, the opposite when its arguments
\* are swapped, it is transitive, every Phony key comes before every File
\* key, and two keys of one variant are ordered as their strings are,
\* lexicographically.
C30_TotalOrder ==
    phase = "returned" =>
        LET x == tk[1]
            y == tk[2]
        IN  /\ result.ord = "Equal" <=> x = y
            /\ result.ord = "Less" <=> KeyLess(x, y)
            /\ result.ord = "Greater" <=> KeyLess(y, x)
            /\ TaskKeyRelative_cmp(y, x) = Reverse(result.ord)
            /\ \A z \in OrderKeys :
                  (result.ord = "Less" /\ TaskKeyRelative_cmp(y, z) # "Greater")
                      => TaskKeyRelative_cmp(x, z) = "Less"

\* A File key was compared with a Phony key whose string is the greater
\* one: the answer is Greater.
C30_Witness ==
    /\ phase = "returned"
    /\ tk[1].tag = "File" /\ tk[2].tag = "Phony"
    /\ str_cmp(tk[1].s, tk[2].s) = "Less"
    /\ result.ord = "Greater"
====
